---------------------------- MODULE Spec2Model ----------------------------
(***************************************************************************)
(* JobPortal (jobs app): the relational store (User, Profile, Job,         *)
(* Application, Interview) and the request handlers of jobs/views.py,      *)
(* jobs/forms.py and jobs/admin.py as a state machine.                     *)
(*                                                                         *)
(* Every handler is one atomic action, except the apply request, which is  *)
(* split where another request can interleave: ApplyDispatch is the        *)
(* pre-check of ApplyJobView.dispatch, ApplyPost is the form validation    *)
(* and ApplyJobView.form_valid (INSERT and the two mails).                 *)
(*                                                                         *)
(* Not modelled: anonymous requests (LoginRequiredMixin redirects them),   *)
(* requests on ids that never existed, the text columns that no handler    *)
(* reads (description, location, cover_letter, meet_link), time stamps,    *)
(* and username uniqueness within the registration form.                   *)
(***************************************************************************)
EXTENDS Integers, Sequences, FiniteSets, TLC

\* ------------------------------------------------------------------ bounds
MaxUsers == 3          \* rows of User ever created (the superuser included)
MaxJobs == 1           \* rows of Job ever created
MaxApps == 2           \* rows of Application ever created
MaxInterviews == 1     \* rows of Interview ever created
MaxReq == 2            \* apply requests in flight at once

\* --------------------------------------------------------------- constants
MAX_UPLOAD_SIZE == 5 * 1024 * 1024

STATUS_APPLIED == "applied"
STATUS_REVIEW == "review"
STATUS_SHORTLIST == "shortlisted"
STATUS_ACCEPTED == "accepted"
STATUS_REJECTED == "rejected"
STATUS_WITHDRAWN == "withdrawn"
STATUS_CHOICES ==
    {STATUS_APPLIED, STATUS_REVIEW, STATUS_SHORTLIST,
     STATUS_ACCEPTED, STATUS_REJECTED, STATUS_WITHDRAWN}

MODE_CHOICES == {"in_person", "phone", "video"}
INTERVIEW_STATUS_CHOICES == {"scheduled", "rescheduled", "completed", "canceled"}

AllowedExtensions == {"pdf", "doc", "docx"}

\* ------------------------------------------------------------------ inputs
Titles == {"Backend Engineer", "Data Engineer"}
TitleInputs == Titles \cup {""}

\* company_name as typed: a sequence of characters
CompanyInputs == { <<>>, <<" ">>, <<"A">>, <<" ", "A", " ">> }

Emails == {"", "u@example.com"}

NoFile == [present |-> FALSE, size |-> 0, ext |-> ""]
File(size, ext) == [present |-> TRUE, size |-> size, ext |-> ext]
Resumes ==
    { NoFile,
      File(2 * 1024 * 1024, "pdf"), File(2 * 1024 * 1024, "PDF"),
      File(2 * 1024 * 1024, "exe"),
      File(MAX_UPLOAD_SIZE, "docx"), File(MAX_UPLOAD_SIZE + 1, "doc") }

InterviewInputs ==
    { [scheduled_at |-> "2024-01-15T10:00", mode |-> "phone", notes |-> "bring id"],
      [scheduled_at |-> "", mode |-> "video", notes |-> ""] }

\* mutant: a fourth admin action that marks the selection as applied
AdminStatuses_WithApplied ==
    {STATUS_APPLIED, STATUS_REVIEW, STATUS_ACCEPTED, STATUS_REJECTED}

\* the statuses written by the actions of ApplicationAdmin
AdminStatuses == {STATUS_REVIEW, STATUS_ACCEPTED, STATUS_REJECTED}

\* ------------------------------------------------------------------- state
VARIABLES
    users,        \* User rows: id -> [email, is_staff]
    profiles,     \* Profile rows: id -> [user, is_employer, company_name]
    jobs,         \* Job rows: id -> [poster, title]
    jobSeq,       \* last Job id handed out
    apps,         \* Application rows: id -> [job, applicant, status]
    appSeq,       \* last Application id handed out
    interviews,   \* Interview rows: id -> [application, created_by,
                  \*   scheduled_at, mode, notes, status, invite_sent]
    ivSeq,        \* last Interview id handed out
    req,          \* apply requests past the pre-check: <<user, job>> -> how many
    last          \* the request that ended last, and how

vars == <<users, profiles, jobs, jobSeq, apps, appSeq, interviews, ivSeq, req, last>>

\* What is kept of a finished request: who asked what of which row, what was
\* submitted (input), the status the row had before (before), how the
\* request ended, and the mails attempted and failed.
NoInput == [kind |-> "none"]

Result(op, u, obj, outcome, attempted, failed) ==
    [op |-> op, user |-> u, obj |-> obj, outcome |-> outcome,
     attempted |-> attempted, failed |-> failed,
     input |-> NoInput, before |-> ""]

With(result, input, before) == [result EXCEPT !.input = input, !.before = before]

\* the rows of f with a key in keep; f with row k set to v
Drop(f, keep) == [k \in keep |-> f[k]]
Put(f, k, v) == [x \in DOMAIN f \cup {k} |-> IF x = k THEN v ELSE f[x]]

\* ------------------------------------------------------------ pure helpers
IsSpace(c) == c \in {" ", "\t", "\n"}

RECURSIVE LStrip(_)
LStrip(s) == IF s # <<>> /\ IsSpace(Head(s)) THEN LStrip(Tail(s)) ELSE s

RECURSIVE RStrip(_)
RStrip(s) ==
    IF s # <<>> /\ IsSpace(s[Len(s)]) THEN RStrip(SubSeq(s, 1, Len(s) - 1)) ELSE s

\* str.strip()
Strip(s) == RStrip(LStrip(s))

\* str.lower() on the extensions the model uploads
Lower(e) == IF e = "PDF" THEN "pdf" ELSE e

\* send_mail(..., fail_silently=False) inside try/except: the set of
\* recipients whose dispatch raised, among those attempted
Failed(attempted, mailOK) == {x \in attempted : ~mailOK[x]}

HasEmail(u) == users[u].email # ""

\* ----------------------------------------------------------------- Profile
HasProfile(u) == \E p \in DOMAIN profiles : profiles[p].user = u
ProfileOf(u) == CHOOSE p \in DOMAIN profiles : profiles[p].user = u

\* request.user.profile.is_employer, with the RelatedObjectDoesNotExist of a
\* missing profile reported as "missing"
ProfileIsEmployer(u) ==
    IF HasProfile(u)
    THEN (IF profiles[ProfileOf(u)].is_employer THEN "yes" ELSE "no")
    ELSE "missing"

\* mutant: create in place of get_or_create, a fresh row on every call
ProfileUpsert_AlwaysCreate(ps, u, is_employer, company) ==
    Put(ps, Cardinality(DOMAIN ps) + 1,
        [user |-> u, is_employer |-> is_employer, company_name |-> company])

\* Profile.objects.get_or_create(user=u), then the two conditional
\* assignments and profile.save()
ProfileUpsert(ps, u, is_employer, company) ==
    LET found == {p \in DOMAIN ps : ps[p].user = u}
        pid == IF found # {} THEN CHOOSE p \in found : TRUE
               ELSE Cardinality(DOMAIN ps) + 1
        old == IF found # {} THEN ps[pid]
               ELSE [user |-> u, is_employer |-> FALSE, company_name |-> <<>>]
        new == [user |-> u,
                is_employer |-> IF is_employer THEN TRUE ELSE old.is_employer,
                company_name |-> IF company # <<>> THEN company
                                 ELSE old.company_name]
    IN Put(ps, pid, new)

Init ==
    \* the superuser of createsuperuser: no email given, no Profile row
    /\ users = (1 :> [email |-> "", is_staff |-> TRUE])
    /\ profiles = <<>>
    /\ jobs = <<>>
    /\ jobSeq = 0
    /\ apps = <<>>
    /\ appSeq = 0
    /\ interviews = <<>>
    /\ ivSeq = 0
    /\ req = <<>>
    /\ last = Result("none", 0, 0, "none", {}, {})

\* ---------------------------------------------------------------- Register
\* UserCreationForm / EmailField validation
RegisterFormValid(form) ==
    /\ form.password1 = form.password2
    /\ form.email # ""

\* RegisterForm.save: the User row with its email, then its Profile
RegisterFormSaveUsers(form, uid) ==
    Put(users, uid, [email |-> form.email, is_staff |-> FALSE])

RegisterFormSaveProfiles(form, uid) ==
    ProfileUpsert(profiles, uid, form.is_employer, Strip(form.company_name))

RegisterForm(email, p1, p2, is_employer, company) ==
    [email |-> email, password1 |-> p1, password2 |-> p2,
     is_employer |-> is_employer, company_name |-> company]

RegisterInputs ==
    { RegisterForm("u@example.com", "pw", "pw", TRUE, <<" ", "A", " ">>),
      RegisterForm("u@example.com", "pw", "pw", FALSE, <<>>),
      RegisterForm("u@example.com", "pw", "pw", FALSE, <<" ">>),
      RegisterForm("u@example.com", "pw", "pv", TRUE, <<"A">>),
      RegisterForm("", "pw", "pw", FALSE, <<" ">>) }

Register(form, mailOK) ==
    LET uid == Cardinality(DOMAIN users) + 1 IN
    /\ Cardinality(DOMAIN users) < MaxUsers
    /\ IF RegisterFormValid(form)
       THEN /\ users' = RegisterFormSaveUsers(form, uid)
            \* RegisterView.form_valid repeats the profile step of the form
            /\ profiles' = ProfileUpsert(RegisterFormSaveProfiles(form, uid), uid,
                                         form.is_employer, Strip(form.company_name))
            /\ last' = With(Result("register", uid, uid, "success", {"user"},
                                   Failed({"user"}, mailOK)), form, "")
       ELSE /\ UNCHANGED <<users, profiles>>
            /\ last' = With(Result("register", 0, 0, "invalid", {}, {}), form, "")
    /\ UNCHANGED <<jobs, jobSeq, apps, appSeq, interviews, ivSeq, req>>

\* --------------------------------------------------------------------- Job
\* JobForm (a ModelForm over title, company, description, location): the
\* required CharField title
JobFormValid(title) == title # ""

\* mutant: the except branch of the dispatch lets the request through
CanPostJobs_MissingPasses(u) == ProfileIsEmployer(u) # "no"

\* JobCreateView.dispatch: only an employer profile passes; a missing
\* profile is refused too
CanPostJobs(u) == ProfileIsEmployer(u) = "yes"

JobCreate(u, title) ==
    /\ u \in DOMAIN users
    /\ jobSeq < MaxJobs
    /\ IF ~CanPostJobs(u)
       THEN /\ UNCHANGED <<jobs, jobSeq>>
            /\ last' = Result("job_create", u, 0, "forbidden", {}, {})
       ELSE IF ~JobFormValid(title)
       THEN /\ UNCHANGED <<jobs, jobSeq>>
            /\ last' = Result("job_create", u, 0, "invalid", {}, {})
       ELSE /\ jobSeq' = jobSeq + 1
            /\ jobs' = Put(jobs, jobSeq + 1, [poster |-> u, title |-> title])
            /\ last' = Result("job_create", u, jobSeq + 1, "success", {}, {})
    /\ UNCHANGED <<users, profiles, apps, appSeq, interviews, ivSeq, req>>

\* mutant: any employer account passes
JobTestFunc_AnyEmployer(u, j) == CanPostJobs(u)

\* JobUpdateView.test_func / JobDeleteView.test_func
JobTestFunc(u, j) == jobs[j].poster = u

\* JobForm.save on an existing row: only the form's fields are written
JobFormSave(j, title) == [jobs EXCEPT ![j].title = title]

JobUpdate(u, j, title) ==
    /\ u \in DOMAIN users
    /\ j \in DOMAIN jobs
    /\ IF ~JobTestFunc(u, j)
       THEN /\ UNCHANGED jobs
            /\ last' = Result("job_update", u, j, "forbidden", {}, {})
       ELSE IF ~JobFormValid(title)
       THEN /\ UNCHANGED jobs
            /\ last' = Result("job_update", u, j, "invalid", {}, {})
       ELSE /\ jobs' = JobFormSave(j, title)
            /\ last' = Result("job_update", u, j, "success", {}, {})
    /\ UNCHANGED <<users, profiles, jobSeq, apps, appSeq, interviews, ivSeq, req>>

\* on_delete=CASCADE from Job to Application to Interview
AppsOfJob(j) == {a \in DOMAIN apps : apps[a].job = j}
InterviewsOfApps(as) == {i \in DOMAIN interviews : interviews[i].application \in as}

JobDelete(u, j) ==
    /\ u \in DOMAIN users
    /\ j \in DOMAIN jobs
    /\ IF ~JobTestFunc(u, j)
       THEN /\ UNCHANGED <<jobs, apps, interviews>>
            /\ last' = Result("job_delete", u, j, "forbidden", {}, {})
       ELSE /\ jobs' = Drop(jobs, DOMAIN jobs \ {j})
            /\ apps' = Drop(apps, DOMAIN apps \ AppsOfJob(j))
            /\ interviews' = Drop(interviews,
                                  DOMAIN interviews \ InterviewsOfApps(AppsOfJob(j)))
            /\ last' = Result("job_delete", u, j, "success", {}, {})
    /\ UNCHANGED <<users, profiles, jobSeq, appSeq, ivSeq, req>>

\* ------------------------------------------------------------------- Apply
\* mutant: the pre-check skips withdrawn rows
AlreadyApplied_ActiveOnly(u, j) ==
    \E a \in DOMAIN apps :
        apps[a].job = j /\ apps[a].applicant = u /\ apps[a].status # STATUS_WITHDRAWN

\* Application.objects.filter(job=j, applicant=u).exists()
AlreadyApplied(u, j) ==
    \E a \in DOMAIN apps : apps[a].job = j /\ apps[a].applicant = u

\* Meta.unique_together = ("job", "applicant"): the store refuses a second row
UniqueTogetherViolated(u, j) ==
    \E a \in DOMAIN apps : apps[a].job = j /\ apps[a].applicant = u

\* mutant: the test of JobCreateView.dispatch (not is_employer) pasted in
EmployerMayNotApply_Negated(u) == ProfileIsEmployer(u) = "no"

\* ApplyJobView.dispatch: the employer check; a missing profile passes
EmployerMayNotApply(u) == ProfileIsEmployer(u) = "yes"

RECURSIVE SumOver(_, _)
SumOver(f, S) == IF S = {} THEN 0
                 ELSE LET x == CHOOSE y \in S : TRUE
                      IN f[x] + SumOver(f, S \ {x})

InFlight == SumOver(req, DOMAIN req)

Count(u, j) == IF <<u, j>> \in DOMAIN req THEN req[<<u, j>>] ELSE 0

\* ApplyJobView.dispatch up to super().dispatch()
ApplyDispatch(u, j) ==
    /\ u \in DOMAIN users
    /\ j \in DOMAIN jobs
    /\ InFlight < MaxReq
    /\ IF AlreadyApplied(u, j)
       THEN /\ UNCHANGED req
            /\ last' = Result("apply", u, j, "already_applied", {}, {})
       ELSE IF EmployerMayNotApply(u)
       THEN /\ UNCHANGED req
            /\ last' = Result("apply", u, j, "employer_rejected", {}, {})
       ELSE /\ req' = Put(req, <<u, j>>, Count(u, j) + 1)
            /\ last' = Result("apply", u, j, "checked", {}, {})
    /\ UNCHANGED <<users, profiles, jobs, jobSeq, apps, appSeq, interviews, ivSeq>>

\* mutant: "under 5 MB" taken strictly (>= for >)
ResumeError_Strict(resume) ==
    IF ~resume.present THEN "required"
    ELSE IF resume.size >= MAX_UPLOAD_SIZE THEN "too_large"
    ELSE IF Lower(resume.ext) \notin AllowedExtensions THEN "bad_extension"
    ELSE "ok"

\* the resume field of ApplicationForm: the required FileField, then
\* clean_resume, then the model field's FileExtensionValidator
ResumeError(resume) ==
    IF ~resume.present THEN "required"
    ELSE IF resume.size > MAX_UPLOAD_SIZE THEN "too_large"
    ELSE IF Lower(resume.ext) \notin AllowedExtensions THEN "bad_extension"
    ELSE "ok"

\* the INSERT of form.save(): unique_together (job, applicant) and the
\* foreign key to Job are the store's; the form validates neither, since
\* job and applicant are not fields of the form
InsertRejected(u, j) == UniqueTogetherViolated(u, j) \/ j \notin DOMAIN jobs

\* the two mails of ApplyJobView.form_valid, each in its own try/except
ApplyMailAttempts(u, j) ==
    (IF HasEmail(u) THEN {"applicant"} ELSE {})
    \cup (IF HasEmail(jobs[j].poster) THEN {"poster"} ELSE {})

\* mutant: both mails inside one try block, so the failure of the first
\* skips the second
ApplyPost_SingleTry(u, j, resume, mailOK) ==
    LET attempted == IF HasEmail(u) /\ ~mailOK["applicant"] THEN {"applicant"}
                     ELSE ApplyMailAttempts(u, j) IN
    /\ <<u, j>> \in DOMAIN req
    /\ IF ResumeError(resume) # "ok"
          THEN /\ UNCHANGED <<apps, appSeq>>
               /\ last' = With(Result("apply", u, j, "invalid", {}, {}), resume, "")
          ELSE IF InsertRejected(u, j)
          THEN /\ UNCHANGED <<apps, appSeq>>
               /\ last' = With(Result("apply", u, j, "crash", {}, {}), resume, "")
          ELSE /\ appSeq < MaxApps
               /\ appSeq' = appSeq + 1
               /\ apps' = Put(apps, appSeq + 1,
                              [job |-> j, applicant |-> u, status |-> STATUS_APPLIED])
               /\ last' = With(Result("apply", u, j, "success", attempted,
                                      Failed(attempted, mailOK)),
                               resume, "")
    /\ req' = IF req[<<u, j>>] > 1 THEN [req EXCEPT ![<<u, j>>] = @ - 1]
              ELSE Drop(req, DOMAIN req \ {<<u, j>>})
    /\ UNCHANGED <<users, profiles, jobs, jobSeq, interviews, ivSeq>>

\* the rest of the POST: form validation and ApplyJobView.form_valid
ApplyPost(u, j, resume, mailOK) ==
    /\ <<u, j>> \in DOMAIN req
    /\ IF ResumeError(resume) # "ok"
          THEN /\ UNCHANGED <<apps, appSeq>>
               /\ last' = With(Result("apply", u, j, "invalid", {}, {}), resume, "")
          ELSE IF InsertRejected(u, j)
          THEN /\ UNCHANGED <<apps, appSeq>>
               /\ last' = With(Result("apply", u, j, "crash", {}, {}), resume, "")
          ELSE /\ appSeq < MaxApps
               /\ appSeq' = appSeq + 1
               /\ apps' = Put(apps, appSeq + 1,
                              [job |-> j, applicant |-> u, status |-> STATUS_APPLIED])
               /\ last' = With(Result("apply", u, j, "success",
                                      ApplyMailAttempts(u, j),
                                      Failed(ApplyMailAttempts(u, j), mailOK)),
                               resume, "")
    /\ req' = IF req[<<u, j>>] > 1 THEN [req EXCEPT ![<<u, j>>] = @ - 1]
              ELSE Drop(req, DOMAIN req \ {<<u, j>>})
    /\ UNCHANGED <<users, profiles, jobs, jobSeq, interviews, ivSeq>>

\* ---------------------------------------------------------------- Withdraw
\* mutant: the lookup lets the job's poster through as well
WithdrawFinds_OrPoster(u, a) ==
    apps[a].applicant = u \/ jobs[apps[a].job].poster = u

\* get_object_or_404(Application, pk=pk, applicant=request.user)
WithdrawFinds(u, a) == apps[a].applicant = u

Withdraw(u, a) ==
    /\ u \in DOMAIN users
    /\ a \in DOMAIN apps
    /\ IF ~WithdrawFinds(u, a)
       THEN /\ UNCHANGED apps
            /\ last' = Result("withdraw", u, a, "not_found", {}, {})
       ELSE /\ apps' = [apps EXCEPT ![a].status = STATUS_WITHDRAWN]
            /\ last' = With(Result("withdraw", u, a, "success", {}, {}),
                            NoInput, apps[a].status)
    /\ UNCHANGED <<users, profiles, jobs, jobSeq, appSeq, interviews, ivSeq, req>>

\* --------------------------------------------------------------- Shortlist
\* mutant: a transition table that leaves terminal statuses alone
ShortlistAllowed_NonTerminal(u, a) ==
    /\ jobs[apps[a].job].poster = u
    /\ apps[a].status \notin {STATUS_ACCEPTED, STATUS_REJECTED, STATUS_WITHDRAWN}

\* ShortlistApplicationView.post: app.job.poster != request.user
ShortlistAllowed(u, a) == jobs[apps[a].job].poster = u

ShortlistMailAttempts(a) ==
    IF HasEmail(apps[a].applicant) THEN {"applicant"} ELSE {}

Shortlist(u, a, mailOK) ==
    /\ u \in DOMAIN users
    /\ a \in DOMAIN apps
    /\ IF ~ShortlistAllowed(u, a)
       THEN /\ UNCHANGED apps
            /\ last' = Result("shortlist", u, a, "forbidden", {}, {})
       ELSE /\ apps' = [apps EXCEPT ![a].status = STATUS_SHORTLIST]
            /\ last' = With(Result("shortlist", u, a, "success",
                                   ShortlistMailAttempts(a),
                                   Failed(ShortlistMailAttempts(a), mailOK)),
                            NoInput, apps[a].status)
    /\ UNCHANGED <<users, profiles, jobs, jobSeq, appSeq, interviews, ivSeq, req>>

\* ------------------------------------------------------------------- admin
\* ApplicationAdmin.mark_as_review / mark_as_accepted / mark_as_rejected:
\* queryset.update(status=...)
AdminMark(u, status, qs) ==
    /\ u \in DOMAIN users
    /\ users[u].is_staff
    /\ qs # {}
    /\ apps' = [a \in DOMAIN apps |->
                   IF a \in qs THEN [apps[a] EXCEPT !.status = status] ELSE apps[a]]
    /\ last' = Result("admin_mark", u, 0, status, {}, {})
    /\ UNCHANGED <<users, profiles, jobs, jobSeq, appSeq, interviews, ivSeq, req>>

\* --------------------------------------------------------------- Interview
\* InterviewCreateView.dispatch: self.application.job.poster != request.user
IsPosterOfApp(u, a) == jobs[apps[a].job].poster = u

\* InterviewForm, a ModelForm over Interview: scheduled_at is required and
\* mode is one of MODE_CHOICES
InterviewFormValid(form) ==
    /\ form.scheduled_at # ""
    /\ form.mode \in MODE_CHOICES

\* the single try block of InterviewCreateView.form_valid: the applicant's
\* mail, then the poster's; the first failure skips the rest
InterviewMailAttempts(a, mailOK) ==
    LET toApplicant == IF HasEmail(apps[a].applicant) THEN {"applicant"} ELSE {}
        toPoster == IF HasEmail(jobs[apps[a].job].poster) THEN {"poster"} ELSE {}
    IN IF Failed(toApplicant, mailOK) # {} THEN toApplicant
       ELSE toApplicant \cup toPoster

\* invite_sent is set at the end of the try block, which only an
\* exception leaves early
InviteSent(a, mailOK) == Failed(InterviewMailAttempts(a, mailOK), mailOK) = {}

InterviewCreate(u, a, form, mailOK) ==
    /\ u \in DOMAIN users
    /\ a \in DOMAIN apps
    /\ ivSeq < MaxInterviews
    /\ IF ~IsPosterOfApp(u, a)
       THEN /\ UNCHANGED <<interviews, ivSeq>>
            /\ last' = Result("interview_create", u, a, "forbidden", {}, {})
       ELSE IF ~InterviewFormValid(form)
       THEN /\ UNCHANGED <<interviews, ivSeq>>
            /\ last' = Result("interview_create", u, a, "invalid", {}, {})
       ELSE /\ ivSeq' = ivSeq + 1
            /\ interviews' = Put(interviews, ivSeq + 1,
                  [application |-> a, created_by |-> u,
                   scheduled_at |-> form.scheduled_at, mode |-> form.mode,
                   notes |-> form.notes, status |-> "scheduled",
                   invite_sent |-> InviteSent(a, mailOK)])
            /\ last' = With(Result("interview_create", u, ivSeq + 1, "success",
                                   InterviewMailAttempts(a, mailOK),
                                   Failed(InterviewMailAttempts(a, mailOK), mailOK)),
                            form, "")
    /\ UNCHANGED <<users, profiles, jobs, jobSeq, apps, appSeq, req>>

\* interview.application.job.poster == request.user
IsPosterOfInterview(u, i) == IsPosterOfApp(u, interviews[i].application)

InterviewUpdate(u, i, form) ==
    /\ u \in DOMAIN users
    /\ i \in DOMAIN interviews
    /\ IF ~IsPosterOfInterview(u, i)
       THEN /\ UNCHANGED interviews
            /\ last' = Result("interview_update", u, i, "forbidden", {}, {})
       ELSE IF ~InterviewFormValid(form)
       THEN /\ UNCHANGED interviews
            /\ last' = Result("interview_update", u, i, "invalid", {}, {})
       ELSE /\ interviews' = [interviews EXCEPT
                                 ![i].scheduled_at = form.scheduled_at,
                                 ![i].mode = form.mode,
                                 ![i].notes = form.notes]
            /\ last' = With(Result("interview_update", u, i, "success", {}, {}),
                            form, "")
    /\ UNCHANGED <<users, profiles, jobs, jobSeq, apps, appSeq, ivSeq, req>>

\* InterviewCancelView declares test_func(self, interview)
CancelTestFuncParams == <<"interview">>

\* UserPassesTestMixin.dispatch calls self.get_test_func()() with no
\* argument before any handler runs: a TypeError when test_func wants one
MixinTestCallRaises == Len(CancelTestFuncParams) # 0

CancelMailAttempts(i) ==
    IF HasEmail(apps[interviews[i].application].applicant) THEN {"applicant"} ELSE {}

\* InterviewCancelView.post
InterviewCancelPost(u, i, mailOK) ==
    IF ~IsPosterOfInterview(u, i)
    THEN /\ UNCHANGED interviews
         /\ last' = Result("interview_cancel", u, i, "forbidden", {}, {})
    ELSE /\ interviews' = [interviews EXCEPT ![i].status = "canceled"]
         /\ last' = Result("interview_cancel", u, i, "success", CancelMailAttempts(i),
                           Failed(CancelMailAttempts(i), mailOK))

InterviewCancel(u, i, mailOK) ==
    /\ u \in DOMAIN users
    /\ i \in DOMAIN interviews
    /\ IF MixinTestCallRaises
       THEN /\ UNCHANGED interviews
            /\ last' = Result("interview_cancel", u, i, "crash", {}, {})
       ELSE InterviewCancelPost(u, i, mailOK)
    /\ UNCHANGED <<users, profiles, jobs, jobSeq, apps, appSeq, ivSeq, req>>

MailOutcomes(recipients) == [recipients -> BOOLEAN]

Next ==
    \/ \E u \in DOMAIN users, t \in TitleInputs : JobCreate(u, t)
    \/ \E u \in DOMAIN users, j \in DOMAIN jobs, t \in TitleInputs : JobUpdate(u, j, t)
    \/ \E u \in DOMAIN users, j \in DOMAIN jobs : JobDelete(u, j)
    \/ \E u \in DOMAIN users, j \in DOMAIN jobs : ApplyDispatch(u, j)
    \/ \E r \in DOMAIN req, f \in Resumes, m \in MailOutcomes({"applicant", "poster"}) :
          ApplyPost(r[1], r[2], f, m)
    \/ \E u \in DOMAIN users, a \in DOMAIN apps : Withdraw(u, a)
    \/ \E u \in DOMAIN users, a \in DOMAIN apps, m \in MailOutcomes({"applicant"}) :
          Shortlist(u, a, m)
    \/ \E u \in DOMAIN users, st \in AdminStatuses, qs \in SUBSET DOMAIN apps :
          AdminMark(u, st, qs)
    \/ \E u \in DOMAIN users, a \in DOMAIN apps, f \in InterviewInputs,
          m \in MailOutcomes({"applicant", "poster"}) : InterviewCreate(u, a, f, m)
    \/ \E u \in DOMAIN users, i \in DOMAIN interviews, f \in InterviewInputs :
          InterviewUpdate(u, i, f)
    \/ \E u \in DOMAIN users, i \in DOMAIN interviews, m \in MailOutcomes({"applicant"}) :
          InterviewCancel(u, i, m)
    \/ \E form \in RegisterInputs, m \in MailOutcomes({"user"}) : Register(form, m)

Spec == Init /\ [][Next]_vars
\* ================================================================== claims
PairOf(a) == <<apps[a].job, apps[a].applicant>>
HasApplication(u, j) == \E a \in DOMAIN apps : PairOf(a) = <<j, u>>
IsEmployerUser(u) ==
    \E p \in DOMAIN profiles : profiles[p].user = u /\ profiles[p].is_employer
PosterOfApp(a) == jobs[apps[a].job].poster
PosterOfInterview(i) == PosterOfApp(interviews[i].application)
ApplicantOfInterview(i) == apps[interviews[i].application].applicant
DispatchOutcomes == {"already_applied", "employer_rejected", "checked"}
PostOutcomes == {"invalid", "crash", "success"}

\* ---- C1
C1_Unique == \A a, b \in DOMAIN apps : PairOf(a) = PairOf(b) => a = b

C1_Step ==
    (/\ last'.op = "apply"
     /\ last'.outcome \in DispatchOutcomes
     /\ HasApplication(last'.user, last'.obj))
    => (last'.outcome = "already_applied" /\ apps' = apps /\ req' = req)

\* C1: in every reachable state there is at most one Application per
\* (job, applicant) pair, and an apply request by a user who already has an
\* Application for the job, whatever its status, ends "already applied",
\* adds no row and leaves no request behind that could add one.
C1_OneApplicationPerPair == [](C1_Unique) /\ [][C1_Step]_vars

\* an apply request refused as "already applied" on a withdrawn Application
C1_Witness ==
    /\ last.op = "apply"
    /\ last.outcome = "already_applied"
    /\ \E a \in DOMAIN apps :
          PairOf(a) = <<last.obj, last.user>> /\ apps[a].status = STATUS_WITHDRAWN

\* ---- C2
\* C2: an apply request that passed the pre-check and whose form is valid,
\* but whose (job, applicant) row exists by the time it saves, ends in the
\* "already applied" outcome and not in an unhandled error.
C2_RaceEndsAlreadyApplied ==
    [][ (/\ last'.op = "apply"
         /\ last'.outcome \in PostOutcomes \ {"invalid"}
         /\ HasApplication(last'.user, last'.obj))
        => (last'.outcome = "already_applied" /\ apps' = apps) ]_vars

\* ---- C3
\* C3: a cancel request by the poster of the interview's job ends with the
\* Interview canceled and a notice to the applicant attempted; a cancel
\* request by anyone else is refused and leaves the status as it was.
C3_CancelByPosterOnly ==
    (last.op = "interview_cancel" /\ last.obj \in DOMAIN interviews)
    => IF PosterOfInterview(last.obj) = last.user
       THEN /\ last.outcome = "success"
            /\ interviews[last.obj].status = "canceled"
            /\ (users[ApplicantOfInterview(last.obj)].email # ""
                  => "applicant" \in last.attempted)
       ELSE /\ last.outcome = "forbidden"
            /\ interviews[last.obj].status # "canceled"

\* ---- C4
\* C4: after a schedule-interview request by the poster, invite_sent is true
\* only when both dispatches (to the applicant and to the poster) succeeded;
\* when a dispatch fails invite_sent is false; either way the Interview
\* exists with the submitted scheduled_at, mode and notes.
C4_InviteSentOnlyWhenBothSent ==
    (last.op = "interview_create" /\ last.outcome = "success")
    => /\ last.obj \in DOMAIN interviews
       /\ LET iv == interviews[last.obj] IN
          /\ iv.invite_sent
               => (last.attempted = {"applicant", "poster"} /\ last.failed = {})
          /\ last.failed # {} => ~iv.invite_sent
          /\ iv.scheduled_at = last.input.scheduled_at
          /\ iv.mode = last.input.mode
          /\ iv.notes = last.input.notes

\* ---- C5
\* C5: no Application has an employer as applicant, no apply request of an
\* employer gets past the pre-check, and an apply request by an employer
\* ends refused.
C5_EmployerNeverApplies ==
    /\ \A a \in DOMAIN apps : ~IsEmployerUser(apps[a].applicant)
    /\ \A r \in DOMAIN req : ~IsEmployerUser(r[1])
    /\ (last.op = "apply" /\ IsEmployerUser(last.user))
         => last.outcome = "employer_rejected"

\* an employer's apply request on a job that already has an Application
C5_Witness ==
    /\ last.op = "apply"
    /\ IsEmployerUser(last.user)
    /\ last.outcome = "employer_rejected"
    /\ \E a \in DOMAIN apps : apps[a].job = last.obj

\* ---- C6
FiveMB == 5 * 1024 * 1024
LowerCased(ext) == IF ext = "PDF" THEN "pdf" ELSE ext
BadResume(f) ==
    \/ ~f.present
    \/ f.size > FiveMB
    \/ LowerCased(f.ext) \notin {"pdf", "doc", "docx"}

C6_Rejected ==
    (last.op = "apply" /\ last.outcome \in PostOutcomes)
    => (BadResume(last.input) <=> last.outcome = "invalid")

C6_Step ==
    (last'.op = "apply" /\ last'.outcome = "invalid") => apps' = apps

\* C6: the form of an apply request is refused with a validation error
\* exactly when the resume is missing, larger than 5 MB, or of an extension
\* (letter case aside) outside pdf, doc, docx; so a resume of exactly 5 MB
\* with an allowed extension passes; a refused request leaves the
\* Applications as they were.
C6_ResumeValidation == [](C6_Rejected) /\ [][C6_Step]_vars

\* a resume of exactly 5 MB was accepted and its Application created
C6_Witness ==
    /\ last.op = "apply"
    /\ last.outcome = "success"
    /\ last.input.size = FiveMB
    /\ HasApplication(last.user, last.obj)

\* ---- C7
C7_Step ==
    /\ \A j \in DOMAIN jobs :
          (j \notin DOMAIN jobs' \/ jobs'[j] # jobs[j])
          => /\ last'.op \in {"job_update", "job_delete"}
             /\ last'.obj = j
             /\ last'.user = jobs[j].poster
    /\ (/\ last'.op \in {"job_update", "job_delete"}
        /\ last'.obj \in DOMAIN jobs
        /\ jobs[last'.obj].poster # last'.user)
       => (last'.outcome = "forbidden" /\ jobs' = jobs /\ apps' = apps)
    /\ \A j \in DOMAIN jobs \cap DOMAIN jobs' : jobs'[j].poster = jobs[j].poster

\* C7: a Job row changes or disappears only in an update or delete request
\* on it by its poster; such a request by anyone else is refused and leaves
\* the Jobs and the Applications as they were; no step changes a poster.
C7_OnlyPosterChangesJob == [][C7_Step]_vars

\* another employer's update of a job with an Application was refused
C7_Witness ==
    /\ last.op = "job_update"
    /\ last.outcome = "forbidden"
    /\ IsEmployerUser(last.user)
    /\ last.obj \in DOMAIN jobs
    /\ \E a \in DOMAIN apps : apps[a].job = last.obj

\* ---- C8
C8_Step ==
    (last'.op = "withdraw" /\ last'.obj \in DOMAIN apps)
    => IF apps[last'.obj].applicant = last'.user
       THEN apps' = [apps EXCEPT ![last'.obj].status = "withdrawn"]
       ELSE apps' = apps

\* C8: a withdraw request on an Application by its applicant sets the
\* status to withdrawn, whatever it was, and touches nothing else of the
\* Applications; by any other user it leaves them as they were.
C8_WithdrawByApplicantOnly == [][C8_Step]_vars

\* a second withdrawal of the same Application
C8_Witness ==
    /\ last.op = "withdraw"
    /\ last.outcome = "success"
    /\ last.before = "withdrawn"
    /\ apps[last.obj].status = "withdrawn"

\* ---- C9
C9_Step ==
    (last'.op = "shortlist" /\ last'.obj \in DOMAIN apps)
    => IF PosterOfApp(last'.obj) = last'.user
       THEN /\ apps' = [apps EXCEPT ![last'.obj].status = "shortlisted"]
            /\ last'.outcome = "success"
       ELSE /\ apps' = apps
            /\ last'.outcome = "forbidden"
            /\ last'.attempted = {}

\* C9: a shortlist request by the poster of the Application's job sets the
\* status to shortlisted from any status; by anyone else it is refused,
\* changes no Application and attempts no mail.
C9_ShortlistByPosterOnly == [][C9_Step]_vars

\* a withdrawn Application was shortlisted
C9_Witness ==
    /\ last.op = "shortlist"
    /\ last.outcome = "success"
    /\ last.before = "withdrawn"
    /\ apps[last.obj].status = "shortlisted"

\* ---- C10
C10_Persisted ==
    CASE last.op = "register" ->
           last.obj \in DOMAIN users /\
           \E p \in DOMAIN profiles : profiles[p].user = last.obj
      [] last.op = "apply" ->
           \E a \in DOMAIN apps :
              PairOf(a) = <<last.obj, last.user>> /\ apps[a].status = "applied"
      [] last.op = "shortlist" ->
           last.obj \in DOMAIN apps /\ apps[last.obj].status = "shortlisted"
      [] last.op = "interview_create" ->
           last.obj \in DOMAIN interviews /\
           interviews[last.obj].scheduled_at = last.input.scheduled_at
      [] last.op = "interview_cancel" ->
           last.obj \in DOMAIN interviews /\
           interviews[last.obj].status = "canceled"
      [] OTHER -> TRUE

\* C10: in register, apply, shortlist, schedule-interview and
\* cancel-interview a failed dispatch leaves what was written in place and
\* the request ends in success; so a cancel by the poster ends in success
\* with the Interview canceled whatever the dispatch does.
C10_DispatchFailureNeverBlocks ==
    /\ last.failed # {} => (last.outcome = "success" /\ C10_Persisted)
    /\ (/\ last.op = "interview_cancel"
        /\ last.obj \in DOMAIN interviews
        /\ PosterOfInterview(last.obj) = last.user)
       => (last.outcome = "success" /\ C10_Persisted)

\* ---- C11
C11_PostersAreEmployers ==
    \A j \in DOMAIN jobs : IsEmployerUser(jobs[j].poster)

C11_Refused ==
    (last.op = "job_create" /\ ProfileIsEmployer(last.user) # "yes")
       => last.outcome = "forbidden"

C11_Step ==
    /\ \A j \in DOMAIN jobs' \ DOMAIN jobs :
          /\ last'.op = "job_create"
          /\ last'.outcome = "success"
          /\ last'.obj = j
          /\ jobs'[j].poster = last'.user
          /\ ProfileIsEmployer(last'.user) = "yes"
    /\ (last'.op = "job_create" /\ last'.outcome # "success")
          => (jobs' = jobs /\ jobSeq' = jobSeq)
    /\ \A j \in DOMAIN jobs \cap DOMAIN jobs' : jobs'[j].poster = jobs[j].poster
    /\ \A p \in DOMAIN profiles :
          p \in DOMAIN profiles' /\ profiles'[p].user = profiles[p].user
                                 /\ profiles'[p].is_employer = profiles[p].is_employer

\* C11: a Job comes into being only through a create-job request of a user
\* whose Profile has is_employer set, and its poster is that user; a
\* create-job request of a user whose Profile is not an employer's, or who
\* has no Profile, is refused and leaves the jobs as they were. Posters and
\* employer flags never change afterwards, so every Job's poster is an
\* employer in every reachable state.
C11_JobsOnlyByEmployers ==
    [](C11_PostersAreEmployers /\ C11_Refused) /\ [][C11_Step]_vars

\* a create-job request of the account without a Profile was refused
C11_Witness ==
    /\ last.op = "job_create"
    /\ last.outcome = "forbidden"
    /\ ProfileIsEmployer(last.user) = "missing"
    /\ jobs = <<>>

\* ---- C12
C12_ProfilesOf(u) == {p \in DOMAIN profiles : profiles[p].user = u}

\* c is s without its leading and trailing whitespace
C12_IsTrimOf(c, s) ==
    \E i, j \in 0..Len(s) :
       /\ i + j <= Len(s)
       /\ c = SubSeq(s, i + 1, Len(s) - j)
       /\ \A k \in 1..i : IsSpace(s[k])
       /\ \A k \in (Len(s) - j + 1)..Len(s) : IsSpace(s[k])
       /\ c # <<>> => (~IsSpace(c[1]) /\ ~IsSpace(c[Len(c)]))

C12_Registered ==
    (last.op = "register" /\ last.outcome = "success") =>
       /\ last.obj \in DOMAIN users
       /\ users[last.obj].email = last.input.email
       /\ Cardinality(C12_ProfilesOf(last.obj)) = 1
       /\ \A p \in C12_ProfilesOf(last.obj) :
             /\ profiles[p].is_employer = last.input.is_employer
             /\ C12_IsTrimOf(profiles[p].company_name, last.input.company_name)

C12_AtMostOneProfile ==
    \A u \in DOMAIN users : Cardinality(C12_ProfilesOf(u)) <= 1

C12_Step ==
    /\ (last'.op = "register" /\ last'.outcome = "success") =>
          /\ RegisterFormValid(last'.input)
          /\ last'.obj \notin DOMAIN users
          /\ DOMAIN users' = DOMAIN users \cup {last'.obj}
          /\ \A p \in DOMAIN profiles : p \in DOMAIN profiles' /\ profiles'[p] = profiles[p]
    /\ (last'.op = "register" /\ last'.outcome # "success") =>
          /\ ~RegisterFormValid(last'.input)
          /\ users' = users
          /\ profiles' = profiles

\* C12: after a successful registration the new User has exactly one
\* Profile, whose is_employer is the submitted flag and whose company_name
\* is the submitted name without surrounding whitespace (blank when none was
\* given); the Profiles of the other users are untouched and no user ever
\* has two; a registration that fails validation leaves users and profiles
\* as they were.
C12_RegistrationMakesOneProfile ==
    [](C12_Registered /\ C12_AtMostOneProfile) /\ [][C12_Step]_vars

\* an employer registered with a padded company name: one Profile, trimmed
C12_Witness ==
    /\ last.op = "register"
    /\ last.outcome = "success"
    /\ last.input.is_employer
    /\ last.input.company_name = <<" ", "A", " ">>
    /\ \E p \in DOMAIN profiles :
          /\ C12_ProfilesOf(last.obj) = {p}
          /\ profiles[p].is_employer
          /\ profiles[p].company_name = <<"A">>

\* ---- C13
C13_Applied ==
    \E a \in DOMAIN apps :
       PairOf(a) = <<last.obj, last.user>> /\ apps[a].status = "applied"

\* C13: after a successful apply the Application is there with status
\* 'applied' whatever the two dispatches did, and each dispatch was attempted
\* exactly when its recipient has an email address: whether the mail to the
\* applicant failed has no bearing on the attempt to the poster, and the
\* other way round.
C13_ApplyMailsIndependent ==
    (last.op = "apply" /\ last.outcome = "success") =>
       /\ C13_Applied
       /\ last.obj \in DOMAIN jobs
       /\ "applicant" \in last.attempted <=> HasEmail(last.user)
       /\ "poster" \in last.attempted <=> HasEmail(jobs[last.obj].poster)
       /\ last.failed \subseteq last.attempted

\* both dispatches were attempted and both failed, the Application is there
C13_Witness ==
    /\ last.op = "apply"
    /\ last.outcome = "success"
    /\ last.attempted = {"applicant", "poster"}
    /\ last.failed = {"applicant", "poster"}
    /\ C13_Applied

\* ---- C14
C14_LeftApplied(job, applicant) ==
    \E a \in DOMAIN apps :
       /\ PairOf(a) = <<job, applicant>>
       /\ apps[a].status # "applied"

C14_Step ==
    /\ \A a \in DOMAIN apps :
          apps[a].status # "applied" =>
             \A b \in DOMAIN apps' :
                (apps'[b].job = apps[a].job /\ apps'[b].applicant = apps[a].applicant)
                   => apps'[b].status # "applied"
    /\ (last'.op = "apply" /\ C14_LeftApplied(last'.obj, last'.user))
          => (last'.outcome \notin {"checked", "success"} /\ apps' = apps)

\* C14: an Application whose status is no longer 'applied' never has status
\* 'applied' again, and no other Application of the same job and applicant
\* with status 'applied' appears, whatever request comes next; an apply
\* request for such a job by such an applicant passes no pre-check and stores
\* nothing.
C14_NeverBackToApplied == [][C14_Step]_vars

\* a re-apply was refused on an Application the admin had marked rejected
C14_Witness ==
    /\ last.op = "apply"
    /\ last.outcome = "already_applied"
    /\ \E a \in DOMAIN apps :
          PairOf(a) = <<last.obj, last.user>> /\ apps[a].status = "rejected"

=============================================================================
